---- MODULE Spec2Model ----
(***************************************************************************)
(* email2Print: the polling loop of print_email.py (main_loop), the IMAP   *)
(* connection retry (connect_imap_with_retry), the per-message pipeline    *)
(* (process_email, is_sender_allowed), the printer hand-off (print_content,*)
(* print_file) and the confirmation mail (send_confirmation_email).        *)
(*                                                                         *)
(* Strings are sequences of tokens (a token is a run of characters, or a   *)
(* separator such as "@" or "."), so that lower-casing, splitting at "@",  *)
(* os.path.splitext, bytes.strip and the tag-stripping regular expression  *)
(* are computed, not assumed.                                              *)
(***************************************************************************)
EXTENDS Integers, Sequences, FiniteSets, TLC

\* ------------------------------------------------------------------ bounds
MaxMsgs == 2
MaxRetries == 4
MaxFaults == 1
MaxUnclosed == 1

\* ------------------------------------------------------- program constants
MAX_FILE_SIZE_BYTES == 4
IMAP_RETRY_DELAY == 5
SLEEP_TIME == 60

\* ------------------------------------------------------- string primitives
\* str.lower(), token by token
LowerTok(c) ==
  CASE c = "BOSS" -> "boss"
    [] c = "Corp.com" -> "corp.com"
    [] c = "PDF" -> "pdf"
    [] c = "Report" -> "report"
    [] OTHER -> c

Lower(s) == [i \in 1..Len(s) |-> LowerTok(s[i])]

\* s[i..j] as a sequence (empty when j < i)
Slice(s, i, j) == [k \in 1..(j - i + 1) |-> s[i + k - 1]]

\* index of the last occurrence of token c in s, 0 when absent
LastIndexOf(s, c) ==
  IF \E i \in 1..Len(s) : s[i] = c
    THEN CHOOSE i \in 1..Len(s) : s[i] = c /\ \A j \in (i+1)..Len(s) : s[j] # c
    ELSE 0

\* from_addr.split("@")[-1]
LastSplit(s, c) == Slice(s, LastIndexOf(s, c) + 1, Len(s))

\* bytes.strip(): drop leading and trailing whitespace tokens
IsSpace(c) == c = " "

RECURSIVE LStrip(_)
LStrip(s) == IF s # <<>> /\ IsSpace(Head(s)) THEN LStrip(Tail(s)) ELSE s

RECURSIVE RStrip(_)
RStrip(s) ==
  IF s # <<>> /\ IsSpace(s[Len(s)]) THEN RStrip(Slice(s, 1, Len(s) - 1)) ELSE s

Strip(s) == RStrip(LStrip(s))

\* os.path.splitext(fname)[1].lower().lstrip("."): the suffix after the last
\* dot, unless that dot is one of the leading dots of the name
RECURSIVE LStripDots(_)
LStripDots(s) == IF s # <<>> /\ Head(s) = "." THEN LStripDots(Tail(s)) ELSE s

splitext_ext(fname) ==
  LET d == LastIndexOf(fname, ".")
  IN  IF d = 0 \/ (\A i \in 1..d : fname[i] = ".")
        THEN <<>>
        ELSE Slice(fname, d, Len(fname))

Extension(fname) == LStripDots(Lower(splitext_ext(fname)))

\* re.sub(r"<[^>]+>", "", html): leftmost matches, each running from a "<"
\* over one or more non-">" tokens up to the first ">"
RECURSIVE StripTags(_)
StripTags(s) ==
  IF s = <<>> THEN <<>>
  ELSE IF /\ s[1] = "<"
          /\ Len(s) >= 3
          /\ s[2] # ">"
          /\ \E j \in 3..Len(s) : s[j] = ">"
       THEN LET j == CHOOSE j \in 3..Len(s) :
                       s[j] = ">" /\ \A k \in 2..(j-1) : s[k] # ">"
            IN  StripTags(Slice(s, j + 1, Len(s)))
       ELSE <<s[1]>> \o StripTags(Tail(s))

is_mostly_html_blank(html) == Strip(StripTags(html)) = <<>>

\* ----------------------------------------------------------- message data
Part(maintype, subtype, filename, payload) ==
  [maintype |-> maintype, subtype |-> subtype,
   filename |-> filename, payload |-> payload]

\* part.get_content_type()
get_content_type(part) == <<part.maintype, "/", part.subtype>>

Container == Part("multipart", "mixed", <<>>, <<>>)
PlainBody == Part("text", "plain", <<>>, <<"h", "i">>)
HtmlBody == Part("text", "html", <<>>, <<"<", "b", ">", "x">>)
HtmlBlank == Part("text", "html", <<>>, <<"<", "b", ">", " ">>)
PdfOK == Part("application", "pdf", <<"file", ".", "PDF">>, <<"x", "y">>)
PdfBig == Part("application", "pdf", <<"Report", ".", "pdf">>,
               <<"x", "x", "x", "x", "x">>)
PdfBlank == Part("application", "pdf", <<"file", ".", "pdf">>, <<" ">>)
ExeAtt == Part("application", "octet-stream", <<"run", ".", "exe">>, <<"z">>)

Boss == <<"BOSS", "@", "Corp.com">>
Random == <<"random", "@", "corp.com">>
Eve == <<"eve", "@", "evil.org">>

Msg(from, parts) == [from |-> from, parts |-> parts]

Templates ==
  { Msg(Boss, <<Container, PlainBody, PdfBig, PdfOK>>),
    Msg(Random, <<HtmlBlank>>),
    Msg(Random, <<PlainBody, HtmlBody, ExeAtt>>),
    Msg(Boss, <<PlainBody, PdfBlank>>),
    Msg(Eve, <<PlainBody>>) }

AllowLists ==
  { {},
    { <<"boss", "@", "corp.com">> },
    { <<"@", "corp.com">> } }

ExtLists == { {}, { <<"pdf">> } }

\* the configurations explored: every allow-list, extension list and deletion
\* mode with one connection attempt and summary confirmations, every retry
\* count with one of them, and detailed confirmations with another
Configs ==
  { c \in [allow : AllowLists, ext : ExtLists, del : BOOLEAN,
           retries : 0..MaxRetries, detailed : BOOLEAN] :
      \/ c.retries = 1 /\ ~c.detailed
      \/ /\ c.allow = { <<"boss", "@", "corp.com">> }
         /\ c.ext = { <<"pdf">> }
         /\ c.del
         /\ ~c.detailed
      \/ /\ c.retries = 1
         /\ c.allow = { <<"@", "corp.com">> }
         /\ c.ext = { <<"pdf">> }
         /\ ~c.del }

\* ------------------------------------------------------------------ state
VARIABLES
  ALLOWED_RECIPIENTS,        \* config: set of lower-cased addresses / "@domain"
  ALLOWED_ATTACHMENT_TYPES,  \* config: set of lower-cased extensions
  DELETE_AFTER_PRINT,        \* config
  MAX_IMAP_RETRIES,          \* config
  DETAILED_CONFIRMATION,     \* config
  pc,                        \* position of the single thread of control
  mailbox,                   \* the INBOX on the server: <<[uid, msg, flags]>>
  nextUid,                   \* next UID the server assigns
  attempt,                   \* connect_imap_with_retry: loop variable
  client,                    \* the session: "None", "open" or "closed"
  messages,                  \* main_loop: result of the UNSEEN search
  fetched,                   \* main_loop: result of fetch, <<[uid, msg]>>
  cur,                       \* main_loop: index of the message in work
  from_addr,                 \* process_email: normalised sender
  has_valid_attachments,     \* process_email
  partIdx,                   \* process_email: position of the second walk
  printed_any,               \* process_email
  printed_files,             \* process_email
  success,                   \* print_content: result of print_file
  handlers,                  \* capture handlers attached to the root logger
  tmpfiles,                  \* temp files present on disk, <<uid, part>>
  undeletable,               \* temp files whose os.remove failed
  exc,                       \* exception in flight, "none" when there is none
  faults,                    \* failures the environment has produced so far
  conn_log,                  \* what the running connect_imap_with_retry did
  ops,                       \* what the current cycle did so far, in order
  outbox,                    \* confirmation mails composed in the current cycle
  dispatched,                \* <<uid, part>> handed to the print command, ever
  unclosed                   \* connections opened, login failed, never closed
                             \* by the program (counted up to MaxUnclosed)

config == <<ALLOWED_RECIPIENTS, ALLOWED_ATTACHMENT_TYPES, DELETE_AFTER_PRINT,
            MAX_IMAP_RETRIES, DETAILED_CONFIRMATION>>
history == <<outbox, dispatched>>
server == <<mailbox, nextUid>>
loop_locals == <<messages, fetched, cur>>
mail_locals == <<from_addr, has_valid_attachments, partIdx, printed_any,
                 printed_files, success>>
disk == <<tmpfiles, undeletable>>

vars == <<config, unclosed, history, pc, server, attempt, client, loop_locals, mail_locals,
          handlers, disk, exc, faults, conn_log, ops>>

\* the environment produces at most MaxFaults failures (printer, file system,
\* SMTP, IMAP commands) in a run; connection attempts fail without limit
Fault(failed) ==
  IF failed THEN faults < MaxFaults /\ faults' = faults + 1
            ELSE UNCHANGED faults

Ev(op, uid, arg) == [op |-> op, uid |-> uid, arg |-> arg]

Log(e) == ops' = Append(ops, e)

InitWith(configs) ==
  /\ \E c \in configs :
       /\ ALLOWED_RECIPIENTS = c.allow
       /\ ALLOWED_ATTACHMENT_TYPES = c.ext
       /\ DELETE_AFTER_PRINT = c.del
       /\ MAX_IMAP_RETRIES = c.retries
       /\ DETAILED_CONFIRMATION = c.detailed
  /\ pc = "Start"
  /\ mailbox = <<>>
  /\ nextUid = 1
  /\ attempt = 0
  /\ client = "None"
  /\ messages = <<>>
  /\ fetched = <<>>
  /\ cur = 0
  /\ from_addr = <<>>
  /\ has_valid_attachments = FALSE
  /\ partIdx = 0
  /\ printed_any = FALSE
  /\ printed_files = <<>>
  /\ success = FALSE
  /\ handlers = 0
  /\ tmpfiles = {}
  /\ undeletable = {}
  /\ exc = "none"
  /\ faults = 0
  /\ conn_log = <<>>
  /\ ops = <<>>
  /\ outbox = <<>>
  /\ dispatched = {}
  /\ unclosed = 0

Init == InitWith(Configs)

\* ------------------------------------------------------------ environment
\* a message is delivered to the INBOX while the program is between cycles
Arrive(m) ==
  /\ pc \in {"Start", "Idle"}
  /\ nextUid <= MaxMsgs
  /\ mailbox' = Append(mailbox, [uid |-> nextUid, msg |-> m, flags |-> {}])
  /\ nextUid' = nextUid + 1
  /\ UNCHANGED <<config, unclosed, history, pc, attempt, client, loop_locals, mail_locals,
                 handlers, disk, exc, faults, conn_log, ops>>

\* ---------------------------------------------------------------- main_loop
\* line 306: log, then enter the while loop
main_loop_start ==
  /\ pc = "Start"
  /\ pc' = "Try"
  /\ UNCHANGED <<config, unclosed, history, server, attempt, client, loop_locals, mail_locals,
                 handlers, disk, exc, faults, conn_log, ops>>

\* lines 309-311 and 285: a cycle begins, connect_imap_with_retry is called;
\* range(MAX_IMAP_RETRIES) is empty for 0 and the function falls off its end
main_loop_try ==
  /\ pc = "Try"
  /\ ops' = <<Ev("cycle", 0, 0)>>
  /\ conn_log' = <<>>
  /\ attempt' = 0
  /\ client' = "None"
  /\ messages' = <<>>
  /\ fetched' = <<>>
  /\ cur' = 0
  /\ pc' = IF MAX_IMAP_RETRIES > 0 THEN "Attempt" ELSE "Enter"
  /\ outbox' = <<>>
  /\ UNCHANGED <<config, unclosed, dispatched, server, mail_locals, handlers, disk, exc,
                 faults>>

\* ------------------------------------------------- connect_imap_with_retry
\* the delay doubled at every attempt instead of growing by one step
retry_delay_exponential(a) == IMAP_RETRY_DELAY * (2 ^ a)

\* line 300
retry_delay(a) == IMAP_RETRY_DELAY * (a + 1)

\* line 296
is_last_attempt(a) == a = MAX_IMAP_RETRIES - 1

\* a connection the program no longer refers to is closed by the finalizer of
\* the runtime, if and when that runs: the numbers that may be left of n
Finalized(n) == 0..n

\* lines 290-291: a connection whose login failed stays open; nothing in the
\* handler of lines 294-302 closes it
after_login_fail(n) == IF n < MaxUnclosed THEN n + 1 ELSE MaxUnclosed

\* lines 286-293: the connection opens and the login succeeds
connect_attempt_ok ==
  /\ pc = "Attempt"
  /\ conn_log' = Append(conn_log, Ev("connect_ok", 0, attempt + 1))
  /\ client' = "open"
  /\ unclosed' \in Finalized(unclosed)
  /\ pc' = "Enter"
  /\ UNCHANGED <<config, history, server, attempt, loop_locals, mail_locals,
                 handlers, disk, exc, faults, ops>>

\* lines 286-302: IMAPClient(...) raises ("connect_fail") or login raises on
\* the connection just opened ("login_fail", the connection is not closed);
\* the handler re-raises on the last attempt and sleeps otherwise
connect_attempt_fail(kind) ==
  /\ pc = "Attempt"
  /\ IF is_last_attempt(attempt)
       THEN /\ conn_log' = Append(conn_log, Ev(kind, 0, attempt + 1))
            /\ exc' = "imap_connect"
            /\ pc' = "Except"
            /\ UNCHANGED attempt
       ELSE /\ conn_log' = conn_log \o
                   <<Ev(kind, 0, attempt + 1),
                     Ev("backoff", 0, retry_delay(attempt))>>
            /\ attempt' = attempt + 1
            /\ pc' = "Attempt"
            /\ UNCHANGED exc
  /\ IF kind = "login_fail"
       THEN \E left \in Finalized(unclosed) :
              unclosed' = after_login_fail(left)
       ELSE UNCHANGED unclosed
  /\ UNCHANGED <<config, history, server, client, loop_locals, mail_locals,
                 handlers, disk, faults, ops>>

\* the cycle goes on into the with block although no session was returned
with_enter_unchecked ==
  /\ pc = "Enter"
  /\ pc' = "Select"
  /\ conn_log' = IF client = "None" THEN conn_log ELSE <<>>
  /\ UNCHANGED <<config, unclosed, history, server, attempt, client, loop_locals, mail_locals,
                 handlers, disk, exc, faults, ops>>

\* line 311: the with statement enters the returned object; None has no
\* __enter__. The call of connect_imap_with_retry is over: its record of
\* attempts is dropped once the session is in use
with_enter ==
  /\ pc = "Enter"
  /\ IF client = "None"
       THEN /\ exc' = "not_a_context_manager"
            /\ pc' = "Except"
            /\ UNCHANGED conn_log
       ELSE /\ pc' = "Select"
            /\ conn_log' = <<>>
            /\ UNCHANGED exc
  /\ UNCHANGED <<config, unclosed, history, server, attempt, client, loop_locals, mail_locals,
                 handlers, disk, faults, ops>>

\* the exception leaves the block without the teardown of the session
imap_raises_no_exit(op) ==
  /\ Log(Ev(op, 0, 0))
  /\ exc' = "imap"
  /\ pc' = "Except"

\* an IMAP call inside the with block raises: the block is left through
\* __exit__
imap_raises(op) ==
  /\ Log(Ev(op, 0, 0))
  /\ exc' = "imap"
  /\ pc' = "WithExit"

\* line 312
select_folder(ok) ==
  /\ pc = "Select"
  /\ IF ok THEN Log(Ev("select", 0, 1)) /\ pc' = "Search" /\ UNCHANGED exc
           ELSE imap_raises("select")
  /\ Fault(~ok)
  /\ UNCHANGED <<config, unclosed, history, server, attempt, client, loop_locals, mail_locals,
                 handlers, disk, conn_log>>

\* the UIDs of the messages without the \Seen flag, in mailbox order
RECURSIVE Unseen(_)
Unseen(mb) ==
  IF mb = <<>> THEN <<>>
  ELSE (IF "Seen" \in Head(mb).flags THEN <<>> ELSE <<Head(mb).uid>>)
       \o Unseen(Tail(mb))

\* lines 313-316 and 333-334
search(ok) ==
  /\ pc = "Search"
  /\ IF ok
       THEN /\ Log(Ev("search", 0, 1))
            /\ messages' = Unseen(mailbox)
            /\ pc' = IF Unseen(mailbox) # <<>> THEN "Fetch" ELSE "WithExit"
            /\ UNCHANGED exc
       ELSE /\ imap_raises("search")
            /\ UNCHANGED messages
  /\ Fault(~ok)
  /\ UNCHANGED <<config, unclosed, history, server, attempt, client, fetched, cur, mail_locals,
                 handlers, disk, conn_log>>

MsgOfUid(mb, uid) == (CHOOSE i \in 1..Len(mb) : mb[i].uid = uid)

\* the bodies fetched without the server setting \Seen (a PEEK)
fetch_peek(ok) ==
  /\ pc = "Fetch"
  /\ IF ok
       THEN /\ Log(Ev("fetch", 0, Len(messages)))
            /\ fetched' = [i \in 1..Len(messages) |->
                   [uid |-> messages[i],
                    msg |-> mailbox[MsgOfUid(mailbox, messages[i])].msg]]
            /\ cur' = 1
            /\ pc' = "Msg"
            /\ UNCHANGED <<exc, mailbox>>
       ELSE /\ imap_raises("fetch")
            /\ UNCHANGED <<fetched, mailbox, cur>>
  /\ Fault(~ok)
  /\ UNCHANGED <<config, unclosed, history, nextUid, attempt, client, messages,
                 mail_locals, handlers, disk, conn_log>>

\* line 317: FETCH RFC822 of all found messages at once; the server sets
\* \Seen on every message whose body it returns (folder selected read-write)
fetch(ok) ==
  /\ pc = "Fetch"
  /\ IF ok
       THEN /\ Log(Ev("fetch", 0, Len(messages)))
            /\ fetched' = [i \in 1..Len(messages) |->
                   [uid |-> messages[i],
                    msg |-> mailbox[MsgOfUid(mailbox, messages[i])].msg]]
            /\ mailbox' = [i \in 1..Len(mailbox) |->
                   IF \E k \in 1..Len(messages) : messages[k] = mailbox[i].uid
                     THEN [mailbox[i] EXCEPT !.flags = @ \cup {"Seen"}]
                     ELSE mailbox[i]]
            /\ cur' = 1
            /\ pc' = "Msg"
            /\ UNCHANGED exc
       ELSE /\ imap_raises("fetch")
            /\ UNCHANGED <<fetched, mailbox, cur>>
  /\ Fault(~ok)
  /\ UNCHANGED <<config, unclosed, history, nextUid, attempt, client, messages, mail_locals,
                 handlers, disk, conn_log>>

\* ------------------------------------------------------------ process_email
\* lines 129-131; parseaddr has already isolated the address
extract_sender(msg) == Lower(msg.from)

\* an empty allow-list read as "no restriction"
is_sender_allowed_failopen(addr) ==
  IF ALLOWED_RECIPIENTS = {} THEN TRUE
  ELSE IF addr \in ALLOWED_RECIPIENTS THEN TRUE
  ELSE IF (<<"@">> \o LastSplit(addr, "@")) \in ALLOWED_RECIPIENTS THEN TRUE
  ELSE FALSE

\* lines 133-152
is_sender_allowed(addr) ==
  IF ALLOWED_RECIPIENTS = {} THEN FALSE
  ELSE IF addr \in ALLOWED_RECIPIENTS THEN TRUE
  ELSE IF (<<"@">> \o LastSplit(addr, "@")) \in ALLOWED_RECIPIENTS THEN TRUE
  ELSE FALSE

\* lines 219 and 245: the extension test
ext_allowed(ext) ==
  ALLOWED_ATTACHMENT_TYPES = {} \/ ext \in ALLOWED_ATTACHMENT_TYPES

\* the first walk stopped at the first part that is not a container, whether
\* or not it is an attachment
detect_valid_attachments_first_leaf(msg) ==
  \E i \in 1..Len(msg.parts) :
    /\ msg.parts[i].maintype # "multipart"
    /\ \A j \in 1..(i - 1) : msg.parts[j].maintype = "multipart"
    /\ msg.parts[i].filename # <<>>
    /\ ext_allowed(Extension(msg.parts[i].filename))

\* the first walk counted every attachment, whatever its extension
detect_valid_attachments_any_filename(msg) ==
  \E i \in 1..Len(msg.parts) :
    /\ msg.parts[i].maintype # "multipart"
    /\ msg.parts[i].filename # <<>>

\* the first walk counted only attachments that have something to print
detect_valid_attachments_nonblank(msg) ==
  \E i \in 1..Len(msg.parts) :
    /\ msg.parts[i].maintype # "multipart"
    /\ msg.parts[i].filename # <<>>
    /\ ext_allowed(Extension(msg.parts[i].filename))
    /\ Strip(msg.parts[i].payload) # <<>>

\* lines 211-221: the first walk
detect_valid_attachments(msg) ==
  \E i \in 1..Len(msg.parts) :
    /\ msg.parts[i].maintype # "multipart"
    /\ msg.parts[i].filename # <<>>
    /\ ext_allowed(Extension(msg.parts[i].filename))

\* lines 227-270: what the second walk does with one part
classify_part(part, hva) ==
  IF part.payload = <<>> \/ Strip(part.payload) = <<>> THEN "skip_empty"
  ELSE IF part.filename # <<>>
    THEN IF ~ext_allowed(Extension(part.filename))
           THEN "skip_ext"
           ELSE "print_attachment"
  ELSE IF get_content_type(part) \in {<<"text", "/", "plain">>,
                                     <<"text", "/", "html">>}
    THEN IF hva THEN "skip_body"
         ELSE IF part.subtype = "html" /\ is_mostly_html_blank(part.payload)
           THEN "skip_html_blank"
           ELSE "print_body"
  ELSE "ignore"

\* lines 252 and 267: the description handed to print_content for its log
description(part) ==
  IF part.filename # <<>> THEN <<"attachment '">> \o part.filename \o <<"'">>
  ELSE <<"email body (">> \o get_content_type(part) \o <<")">>

\* the description of an attachment recorded in place of its file name
printed_label_description(part) ==
  IF part.filename # <<>> THEN description(part)
  ELSE <<"EmailBody-">> \o get_content_type(part)

\* lines 255 and 270: what is appended to printed_files
printed_label(part) ==
  IF part.filename # <<>> THEN part.filename
  ELSE <<"EmailBody-">> \o get_content_type(part)

\* the size guard left out
exceeds_size_never(payload) == FALSE

\* the label recorded whether or not the print succeeded
record_printed_always(files, part, ok) == Append(files, printed_label(part))

\* lines 253-255 and 268-270: printed_files after one call of print_content
record_printed(files, part, ok) ==
  IF ok THEN Append(files, printed_label(part)) ELSE files

\* the walk given up at the first part that is not printed
continue_walk_break(idx, n) == n + 1

\* lines 239, 249, 260, 264 and the loop head 226: after a part that is
\* skipped or whose print_content has returned, the walk goes on to the next
\* of the n parts
continue_walk(idx, n) == idx + 1

\* line 162
exceeds_size(payload) == Len(payload) > MAX_FILE_SIZE_BYTES

CurUid == fetched[cur].uid
CurMsg == fetched[cur].msg
CurPart == CurMsg.parts[partIdx]

\* lines 318-223: parse, authorise, attach the capture handler, first walk
process_email_begin ==
  /\ pc = "Msg"
  /\ LET sender == extract_sender(CurMsg)
     IN  IF ~is_sender_allowed(sender)
           THEN /\ Log(Ev("denied", CurUid, 0))
                /\ pc' = "Mark"
                /\ UNCHANGED <<mail_locals, handlers>>
           ELSE /\ Log(Ev("processing", CurUid, 0))
                /\ from_addr' = sender
                /\ printed_files' = <<>>
                /\ printed_any' = FALSE
                /\ handlers' = handlers + 1
                /\ has_valid_attachments' = detect_valid_attachments(CurMsg)
                /\ partIdx' = 1
                /\ pc' = "Part"
                /\ UNCHANGED success
  /\ UNCHANGED <<config, unclosed, history, server, attempt, client, loop_locals, disk, exc,
                 faults, conn_log>>

\* lines 226-270 and 154-170: one step of the second walk; a part that is to
\* be printed goes through the size guard of print_content and, when it
\* passes, is written to a new temp file
process_email_part ==
  /\ pc = "Part"
  /\ partIdx <= Len(CurMsg.parts)
  /\ LET kind == classify_part(CurPart, has_valid_attachments)
     IN  IF kind \in {"print_attachment", "print_body"}
           THEN IF exceeds_size(CurPart.payload)
                  THEN /\ Log(Ev("size_reject", CurUid, partIdx))
                       /\ partIdx' = continue_walk(partIdx,
                                                   Len(CurMsg.parts))
                       /\ UNCHANGED <<pc, disk>>
                  ELSE /\ Log(Ev("tmpfile", CurUid, partIdx))
                       /\ tmpfiles' = tmpfiles \cup {<<CurUid, partIdx>>}
                       /\ pc' = "PrintFile"
                       /\ UNCHANGED <<partIdx, undeletable>>
           ELSE /\ Log(Ev(kind, CurUid, partIdx))
                /\ partIdx' = continue_walk(partIdx, Len(CurMsg.parts))
                /\ UNCHANGED <<pc, disk>>
  /\ UNCHANGED <<config, unclosed, history, server, attempt, client, loop_locals, from_addr,
                 has_valid_attachments, printed_any, printed_files, success,
                 handlers, exc, faults, conn_log>>

\* lines 91-98 and 177: lp exits 0, exits non-zero (CalledProcessError, caught)
\* or cannot be started (OSError, not caught: it leaves print_content and
\* process_email and reaches the with block of main_loop)
print_file(outcome) ==
  /\ pc = "PrintFile"
  /\ Fault(outcome # "exit_zero")
  /\ CASE outcome = "exit_zero" ->
            /\ ops' = ops \o <<Ev("lp", CurUid, partIdx),
                               Ev("sent_to_printer", CurUid, partIdx)>>
            /\ dispatched' = dispatched \cup {<<CurUid, partIdx>>}
            /\ success' = TRUE
            /\ pc' = "Remove"
            /\ UNCHANGED exc
       [] outcome = "exit_nonzero" ->
            /\ ops' = ops \o <<Ev("lp", CurUid, partIdx),
                               Ev("printing_failed", CurUid, partIdx)>>
            /\ dispatched' = dispatched \cup {<<CurUid, partIdx>>}
            /\ success' = FALSE
            /\ pc' = "Remove"
            /\ UNCHANGED exc
       [] outcome = "cannot_invoke" ->
            /\ Log(Ev("lp_not_started", CurUid, partIdx))
            /\ exc' = "oserror"
            /\ pc' = "WithExit"
            /\ UNCHANGED <<success, dispatched>>
  /\ UNCHANGED <<config, unclosed, outbox, server, attempt, client, loop_locals, from_addr,
                 has_valid_attachments, partIdx, printed_any, printed_files,
                 handlers, disk, conn_log>>

\* lines 179-186, then 253-255 or 268-270: remove the temp file (a failure is
\* logged only), return, and record the label of a successful print
print_content_cleanup(removed) ==
  /\ pc = "Remove"
  /\ Fault(~removed)
  /\ IF removed
       THEN /\ Log(Ev("remove", CurUid, partIdx))
            /\ tmpfiles' = tmpfiles \ {<<CurUid, partIdx>>}
            /\ UNCHANGED undeletable
       ELSE /\ Log(Ev("remove_failed", CurUid, partIdx))
            /\ undeletable' = undeletable \cup {<<CurUid, partIdx>>}
            /\ UNCHANGED tmpfiles
  /\ printed_any' = (printed_any \/ success)
  /\ printed_files' = record_printed(printed_files, CurPart, success)
  /\ success' = FALSE
  /\ partIdx' = continue_walk(partIdx, Len(CurMsg.parts))
  /\ pc' = "Part"
  /\ UNCHANGED <<config, unclosed, history, server, attempt, client, loop_locals, from_addr,
                 has_valid_attachments, handlers, exc, conn_log>>

\* lines 200-206 and 272-276: the text the capture handler has collected, one
\* line per entry logged since the handler was attached
RECURSIVE EntriesFrom(_, _)
EntriesFrom(log, i) ==
  IF i > Len(log) THEN <<>> ELSE <<<<log[i].op>>>> \o EntriesFrom(log, i + 1)

log_text(uid, any) ==
  LET start == CHOOSE i \in 1..Len(ops) : ops[i] = Ev("processing", uid, 0)
  IN  EntriesFrom(ops, start)
        \o (IF any THEN <<>> ELSE << <<"no_printable_content">> >>)

\* lines 107-117: the body of the confirmation, as a sequence of lines
confirmation_body(log, files) ==
  IF DETAILED_CONFIRMATION
    THEN << <<"confirmation_processed">> >> \o log
    ELSE IF files # <<>>
      THEN [i \in 1..Len(files) |->
              <<"confirmation_printed">> \o files[i] \o <<"PRINTER_NAME">>]
      ELSE << <<"confirmation_no_files">> >>

\* lines 100-105: the message handed to the SMTP server
confirmation_mail(uid, to, log, files) ==
  [uid |-> uid, to |-> to, labels |-> files,
   body |-> confirmation_body(log, files)]

\* a failure of the SMTP exchange leaves send_confirmation_email as an
\* exception
process_email_finish_raises(sent) ==
  /\ pc = "Part"
  /\ partIdx > Len(CurMsg.parts)
  /\ Fault(~sent)
  /\ handlers' = handlers - 1
  /\ Log(Ev(IF sent THEN "notify" ELSE "notify_failed", CurUid,
            Len(printed_files)))
  /\ outbox' = Append(outbox,
                      confirmation_mail(CurUid, from_addr,
                                        log_text(CurUid, printed_any),
                                        printed_files))
  /\ IF sent THEN pc' = "Mark" /\ UNCHANGED exc
             ELSE pc' = "WithExit" /\ exc' = "smtp"
  /\ UNCHANGED <<config, unclosed, dispatched, server, attempt, client, loop_locals,
                 mail_locals, disk, conn_log>>

\* no confirmation is sent when nothing was printed
process_email_finish_quiet(sent) ==
  /\ pc = "Part"
  /\ partIdx > Len(CurMsg.parts)
  /\ Fault(~sent)
  /\ handlers' = handlers - 1
  /\ IF printed_files = <<>>
       THEN UNCHANGED <<ops, outbox>>
       ELSE /\ Log(Ev(IF sent THEN "notify" ELSE "notify_failed", CurUid,
                      Len(printed_files)))
            /\ outbox' = Append(outbox,
                                confirmation_mail(CurUid, from_addr,
                                                  log_text(CurUid,
                                                           printed_any),
                                                  printed_files))
  /\ pc' = "Mark"
  /\ UNCHANGED <<config, unclosed, dispatched, server, attempt, client, loop_locals,
                 mail_locals, disk, exc, conn_log>>

\* lines 272-278 and 100-127: detach the capture handler and send the
\* confirmation; a failure of the SMTP exchange is logged and swallowed
process_email_finish(sent) ==
  /\ pc = "Part"
  /\ partIdx > Len(CurMsg.parts)
  /\ Fault(~sent)
  /\ handlers' = handlers - 1
  /\ Log(Ev(IF sent THEN "notify" ELSE "notify_failed", CurUid,
            Len(printed_files)))
  /\ outbox' = Append(outbox,
                      confirmation_mail(CurUid, from_addr,
                                        log_text(CurUid, printed_any),
                                        printed_files))
  /\ pc' = "Mark"
  /\ UNCHANGED <<config, unclosed, dispatched, server, attempt, client, loop_locals, mail_locals,
                 disk, exc, conn_log>>

\* ------------------------------------------------------ main_loop, continued
SetFlag(mb, uid, flag) ==
  [i \in 1..Len(mb) |->
     IF mb[i].uid = uid THEN [mb[i] EXCEPT !.flags = @ \cup {flag}] ELSE mb[i]]

\* the seen flag set whatever the deletion mode
mark_op_always_seen == "flag_seen"

\* lines 323-327: the IMAP command that marks a processed message
mark_op == IF DELETE_AFTER_PRINT THEN "delete" ELSE "flag_seen"

\* expunge called whatever the deletion mode
after_loop_always_expunge == "Expunge"

\* lines 329-331: where the cycle goes when the message loop is over
after_loop == IF DELETE_AFTER_PRINT THEN "Expunge" ELSE "WithExit"

\* lines 322-327, and the loop test of line 317
mark_message(ok) ==
  /\ pc = "Mark"
  /\ Fault(~ok)
  /\ IF ok
       THEN /\ Log(Ev(mark_op, CurUid, 0))
            /\ mailbox' = SetFlag(mailbox, CurUid,
                                  IF mark_op = "delete" THEN "Deleted"
                                                        ELSE "Seen")
            /\ IF cur < Len(fetched)
                 THEN cur' = cur + 1 /\ pc' = "Msg"
                 ELSE /\ pc' = after_loop
                      /\ UNCHANGED cur
            /\ UNCHANGED exc
       ELSE /\ imap_raises(mark_op)
            /\ UNCHANGED <<mailbox, cur>>
  /\ from_addr' = <<>>
  /\ has_valid_attachments' = FALSE
  /\ partIdx' = 0
  /\ printed_any' = FALSE
  /\ printed_files' = <<>>
  /\ UNCHANGED <<config, unclosed, history, nextUid, attempt, client, messages, fetched,
                 success, handlers, disk, conn_log>>

RECURSIVE NotDeleted(_)
NotDeleted(mb) ==
  IF mb = <<>> THEN <<>>
  ELSE (IF "Deleted" \in Head(mb).flags THEN <<>> ELSE <<Head(mb)>>)
       \o NotDeleted(Tail(mb))

\* lines 329-332
expunge(ok) ==
  /\ pc = "Expunge"
  /\ Fault(~ok)
  /\ IF ok
       THEN /\ Log(Ev("expunge", 0, 1))
            /\ mailbox' = NotDeleted(mailbox)
            /\ pc' = "WithExit"
            /\ UNCHANGED exc
       ELSE /\ imap_raises("expunge")
            /\ UNCHANGED mailbox
  /\ UNCHANGED <<config, unclosed, history, nextUid, attempt, client, loop_locals, mail_locals,
                 handlers, disk, conn_log>>

\* line 311, leaving the with block: IMAPClient.__exit__ logs out, on the
\* normal path and on the exceptional one
with_exit ==
  /\ pc = "WithExit"
  /\ Log(Ev("logout", 0, 0))
  /\ client' = "closed"
  /\ pc' = IF exc = "none" THEN "Idle" ELSE "Except"
  /\ UNCHANGED <<config, unclosed, history, server, attempt, loop_locals, mail_locals,
                 handlers, disk, exc, faults, conn_log>>

\* the handler lets the exception go on and the process ends
main_loop_except_reraise ==
  /\ pc = "Except"
  /\ Log(Ev("unexpected_error", 0, 0))
  /\ pc' = "Halted"
  /\ unclosed' \in Finalized(unclosed)
  /\ UNCHANGED <<config, history, server, attempt, client, loop_locals, mail_locals,
                 handlers, disk, exc, faults, conn_log>>

\* the handler goes back to the head of the loop without the sleep
main_loop_except_continue ==
  /\ pc = "Except"
  /\ Log(Ev("unexpected_error", 0, 0))
  /\ exc' = "none"
  /\ from_addr' = <<>>
  /\ has_valid_attachments' = FALSE
  /\ partIdx' = 0
  /\ printed_any' = FALSE
  /\ printed_files' = <<>>
  /\ success' = FALSE
  /\ pc' = "Try"
  /\ unclosed' \in Finalized(unclosed)
  /\ UNCHANGED <<config, history, server, attempt, client, loop_locals, handlers, disk,
                 faults, conn_log>>

\* lines 336-338: the handler at the cycle boundary logs and falls through
main_loop_except ==
  /\ pc = "Except"
  /\ Log(Ev("unexpected_error", 0, 0))
  /\ exc' = "none"
  /\ from_addr' = <<>>
  /\ has_valid_attachments' = FALSE
  /\ partIdx' = 0
  /\ printed_any' = FALSE
  /\ printed_files' = <<>>
  /\ success' = FALSE
  /\ pc' = "Idle"
  /\ unclosed' \in Finalized(unclosed)
  /\ UNCHANGED <<config, history, server, attempt, client, loop_locals, handlers, disk,
                 faults, conn_log>>

\* lines 340-341: sleep, then the next iteration of the while loop
main_loop_sleep ==
  /\ pc = "Idle"
  /\ Log(Ev("idle_sleep", 0, SLEEP_TIME))
  /\ pc' = "Try"
  /\ UNCHANGED <<config, unclosed, history, server, attempt, client, loop_locals, mail_locals,
                 handlers, disk, exc, faults, conn_log>>

\* ---------------------------------------------------------- specification
Program ==
  \/ main_loop_start
  \/ main_loop_try
  \/ connect_attempt_ok
  \/ \E kind \in {"connect_fail", "login_fail"} : connect_attempt_fail(kind)
  \/ with_enter
  \/ \E ok \in BOOLEAN : select_folder(ok)
  \/ \E ok \in BOOLEAN : search(ok)
  \/ \E ok \in BOOLEAN : fetch(ok)
  \/ process_email_begin
  \/ process_email_part
  \/ \E outcome \in {"exit_zero", "exit_nonzero", "cannot_invoke"} :
       print_file(outcome)
  \/ \E removed \in BOOLEAN : print_content_cleanup(removed)
  \/ \E sent \in BOOLEAN : process_email_finish(sent)
  \/ \E ok \in BOOLEAN : mark_message(ok)
  \/ \E ok \in BOOLEAN : expunge(ok)
  \/ with_exit
  \/ main_loop_except
  \/ main_loop_sleep

Next == Program \/ \E m \in Templates : Arrive(m)

Spec == Init /\ [][Next]_vars

\* the configurations of the fair specification: one allow-list, extension
\* list and deletion mode, with no connection attempt at all and with two
LiveConfigs ==
  { c \in [allow : AllowLists, ext : ExtLists, del : BOOLEAN,
           retries : 0..MaxRetries, detailed : BOOLEAN] :
      /\ c.allow = { <<"boss", "@", "corp.com">> }
      /\ c.ext = { <<"pdf">> }
      /\ c.del
      /\ ~c.detailed
      /\ c.retries \in {0, 2} }

LiveInit == InitWith(LiveConfigs)

\* the scheduler runs the single thread: a program step that can be taken is
\* eventually taken
FairSpec == LiveInit /\ [][Next]_vars /\ WF_vars(Program)

TypeOK ==
  /\ pc \in {"Start", "Try", "Attempt", "Enter", "Select", "Search", "Fetch",
             "Msg", "Part", "PrintFile", "Remove", "Mark", "Expunge",
             "WithExit", "Except", "Idle"}
  /\ client \in {"None", "open", "closed"}
  /\ attempt \in 0..MaxRetries
  /\ handlers \in 0..MaxMsgs
  /\ undeletable \subseteq tmpfiles
  /\ faults \in 0..MaxFaults
  /\ unclosed \in 0..MaxUnclosed

\* ----------------------------------------------------- reading the record
\* the message a record entry is about, and the part
FetchedMsg(uid) ==
  fetched[CHOOSE k \in 1..Len(fetched) : fetched[k].uid = uid].msg

EvPart(e) == FetchedMsg(e.uid).parts[e.arg]

\* entries that touch the file system or the printer
DispatchOps == {"tmpfile", "lp", "lp_not_started", "remove", "remove_failed"}
MarkOps == {"delete", "flag_seen"}

HasOp(op) == \E i \in 1..Len(ops) : ops[i].op = op
CountOp(log, op) == Cardinality({i \in 1..Len(log) : log[i].op = op})

\* ------------------------------------------------------------------ C1
\* the sender, lower-cased, is listed itself or through "@" + its domain
SenderListed(m) ==
  LET a == Lower(m.from)
  IN  \/ a \in ALLOWED_RECIPIENTS
      \/ (<<"@">> \o LastSplit(a, "@")) \in ALLOWED_RECIPIENTS

\* C1: authorization is fail-closed. A message is processed only when its
\* lower-cased sender or "@" + its domain is on the allow-list; with an empty
\* allow-list or no matching entry the message is denied and nothing of it is
\* written to a temp file, sent to the printer or notified.
C1_FailClosed ==
  \A i \in 1..Len(ops) :
    ops[i].uid # 0 =>
      IF ALLOWED_RECIPIENTS # {} /\ SenderListed(FetchedMsg(ops[i].uid))
        THEN ops[i].op # "denied"
        ELSE ops[i].op \in {"denied"} \cup MarkOps

\* a cycle with a non-empty allow-list denied one message and printed a part
\* of another
C1_Witness ==
  /\ pc = "Idle"
  /\ ALLOWED_RECIPIENTS # {}
  /\ HasOp("denied")
  /\ HasOp("lp")

\* ------------------------------------------------------------------ C2
IsBodyPart(part) ==
  /\ part.filename = <<>>
  /\ part.maintype = "text"
  /\ part.subtype \in {"plain", "html"}

\* an attachment whose extension passes the extension filter
PassingAttachment(part) ==
  /\ part.maintype # "multipart"
  /\ part.filename # <<>>
  /\ \/ ALLOWED_ATTACHMENT_TYPES = {}
     \/ Extension(part.filename) \in ALLOWED_ATTACHMENT_TYPES

HasPassingAttachment(m) ==
  \E j \in 1..Len(m.parts) : PassingAttachment(m.parts[j])

\* C2: attachments take precedence. No body part of a message that holds an
\* attachment passing the extension filter is written to a temp file or sent
\* to the printer, whatever became of the attachments.
C2_AttachmentsFirst ==
  \A i \in 1..Len(ops) :
    (ops[i].op \in DispatchOps /\ IsBodyPart(EvPart(ops[i])))
      => ~HasPassingAttachment(FetchedMsg(ops[i].uid))

\* the only attachment that reached the printer failed there, the message has
\* a non-blank body, and the confirmation reports nothing printed
C2_Witness ==
  \E i, n \in 1..Len(ops) :
    /\ ops[i].op = "lp"
    /\ ~IsBodyPart(EvPart(ops[i]))
    /\ ops[n].op = "notify" /\ ops[n].uid = ops[i].uid /\ ops[n].arg = 0
    /\ \E j \in 1..Len(FetchedMsg(ops[i].uid).parts) :
         /\ IsBodyPart(FetchedMsg(ops[i].uid).parts[j])
         /\ Strip(FetchedMsg(ops[i].uid).parts[j].payload) # <<>>

\* ------------------------------------------------------------------ C3
\* C3: the size guard precedes all work. A part whose payload is longer than
\* the maximum never gets a temp file and never reaches the print command, its
\* rejection leaves no file behind, and it never counts as printed.
C3_SizeGuardFirst ==
  /\ \A i \in 1..Len(ops) :
       /\ ops[i].op \in DispatchOps
            => Len(EvPart(ops[i]).payload) <= MAX_FILE_SIZE_BYTES
       /\ ops[i].op = "size_reject"
            => /\ Len(EvPart(ops[i]).payload) > MAX_FILE_SIZE_BYTES
               /\ <<ops[i].uid, ops[i].arg>> \notin tmpfiles
       /\ ops[i].op \in {"notify", "notify_failed"}
            => ops[i].arg <=
                 Cardinality({k \in 1..i : ops[k].op = "lp"
                                           /\ ops[k].uid = ops[i].uid})
  /\ pc \in {"Part", "PrintFile", "Remove"}
       => Len(printed_files) <=
            Cardinality({k \in 1..Len(ops) : ops[k].op = "lp"
                                             /\ ops[k].uid = CurUid})

\* an oversized attachment was rejected and the cycle went on to its end
C3_Witness ==
  /\ pc = "Idle"
  /\ HasOp("size_reject")
  /\ HasOp("notify")

\* ------------------------------------------------------------------ C4
\* C4: guaranteed release. Whenever the program is idle, every temp file it
\* created is gone, except those whose deletion itself failed.
C4_NoTempFileAtIdle ==
  pc = "Idle" => tmpfiles \ undeletable = {}

\* ------------------------------------------------------------------ C5
AttemptOps == {"connect_ok", "connect_fail", "login_fail"}

\* log is k attempts numbered 1..k with the sleeps d, 2d, .., (k-1)d between
\* them and nothing after the last attempt
IsSchedule(log, k) ==
  /\ Len(log) = 2 * k - 1
  /\ \A j \in 1..k :
       log[2 * j - 1].op \in AttemptOps /\ log[2 * j - 1].arg = j
  /\ \A j \in 1..(k - 1) :
       /\ log[2 * j].op = "backoff"
       /\ log[2 * j].arg = j * IMAP_RETRY_DELAY
       /\ log[2 * j - 1].op # "connect_ok"

C6_NoWorkWithoutSession ==
  /\ client = "None"
       => \A i \in 1..Len(ops) :
            ops[i].op \in {"cycle", "unexpected_error", "idle_sleep"}
  /\ exc \in {"imap_connect", "not_a_context_manager"} => pc = "Except"

\* all attempts of a cycle failed (at least two) and the program is idle
C6_Witness ==
  /\ pc = "Idle"
  /\ client = "None"
  /\ Len(conn_log) >= 3
  /\ conn_log[Len(conn_log)].op \in {"connect_fail", "login_fail"}

\* ------------------------------------------------------------------ C7
\* C7: resilience. Whatever was raised inside a cycle, the loop goes on: a
\* new cycle is started again and again, also after an exception.
C7_AlwaysAnotherCycle ==
  /\ []<>(pc = "Try")
  /\ (exc # "none") ~> (pc = "Try")

\* a cycle that was aborted by an exception inside process_email has been
\* followed by the start of the next cycle
C7_Witness ==
  /\ pc = "Try"
  /\ HasOp("lp_not_started")
  /\ HasOp("unexpected_error")

\* ------------------------------------------------------------------ C8
\* C8: cycles and idle alternate. Every cycle that begins after the first
\* follows exactly one sleep of SLEEP_TIME, which is the last thing recorded
\* after the previous cycle; no sleep of that kind happens inside a cycle.
C8_CycleThenIdle ==
  /\ (pc = "Try" /\ ops # <<>>)
       => /\ ops[1].op = "cycle"
          /\ ops[Len(ops)] = Ev("idle_sleep", 0, SLEEP_TIME)
          /\ CountOp(ops, "idle_sleep") = 1
  /\ pc \notin {"Try", "Start"}
       => /\ ops # <<>>
          /\ ops[1].op = "cycle"
          /\ CountOp(ops, "idle_sleep") = 0
          /\ CountOp(ops, "cycle") = 1

\* a cycle that found no unseen message has been followed by the sleep
C8_Witness ==
  /\ pc = "Try"
  /\ HasOp("search")
  /\ messages = <<>>
  /\ ops[Len(ops)].op = "idle_sleep"

\* ------------------------------------------------------------------ C9
\* C9: session release. No session is open once the cycle is in its handler,
\* idle, or about to start again.
C9_SessionReleased ==
  pc \in {"Except", "Idle", "Try"} => client # "open"

\* an IMAP command raised inside the with block and the session was closed
C9_Witness ==
  /\ pc = "Idle"
  /\ client = "closed"
  /\ HasOp("unexpected_error")
  /\ HasOp("fetch")

\* ------------------------------------------------------------------ C10
\* positions in the record of the entries about message uid
MarkPos(uid) == {i \in 1..Len(ops) : ops[i].op \in MarkOps /\ ops[i].uid = uid}
WorkPos(uid) ==
  {i \in 1..Len(ops) : ops[i].uid = uid /\ ops[i].op \notin MarkOps}

\* C10: per-message marking. At the end of a cycle without exception every
\* fetched message was marked exactly once, with delete in delete-after-print
\* mode and with the seen flag otherwise, after everything done for that
\* message and before anything done for the next one.
C10_MarkedOnceInOrder ==
  (pc = "Idle" /\ ~HasOp("unexpected_error")) =>
    \A k \in 1..Len(fetched) :
      LET uid == fetched[k].uid
      IN  /\ Cardinality(MarkPos(uid)) = 1
          /\ \A i \in MarkPos(uid) :
               /\ ops[i].op = IF DELETE_AFTER_PRINT THEN "delete"
                                                    ELSE "flag_seen"
               /\ \A j \in WorkPos(uid) : j < i
               /\ k < Len(fetched)
                    => \A j \in WorkPos(fetched[k + 1].uid) : i < j

\* two messages in one cycle, the first denied and the second printed
C10_Witness ==
  /\ pc = "Idle"
  /\ ~HasOp("unexpected_error")
  /\ Len(fetched) = 2
  /\ \E i, j \in 1..Len(ops) :
       /\ i < j
       /\ ops[i].op = "denied" /\ ops[i].uid = fetched[1].uid
       /\ ops[j].op = "lp" /\ ops[j].uid = fetched[2].uid


\* ------------------------------------------------------------------ C11
\* C11: batched expunge. Expunge is called at most once in a cycle, only in
\* delete-after-print mode and only when messages were fetched; a cycle of
\* that mode that fetched messages and ended without exception called it
\* exactly once, after the delete mark of every fetched message.
C11_ExpungeOnce ==
  /\ CountOp(ops, "expunge") <= 1
  /\ HasOp("expunge") => (DELETE_AFTER_PRINT /\ fetched # <<>>)
  /\ (pc = "Idle" /\ ~HasOp("unexpected_error")
        /\ DELETE_AFTER_PRINT /\ fetched # <<>>)
       => /\ CountOp(ops, "expunge") = 1
          /\ \A e \in 1..Len(ops) :
               ops[e].op = "expunge" =>
                 \A k \in 1..Len(fetched) :
                   \E i \in 1..(e - 1) :
                     ops[i] = Ev("delete", fetched[k].uid, 0)

\* two messages were marked for deletion and expunged together
C11_Witness ==
  /\ pc = "Idle"
  /\ ~HasOp("unexpected_error")
  /\ Len(fetched) = 2
  /\ CountOp(ops, "delete") = 2
  /\ ops[Len(ops) - 1] = Ev("expunge", 0, 1)


\* ------------------------------------------------------------------ C12
\* C12: the notifier is best-effort. After a failed send nothing is raised:
\* the next thing the cycle does is the marking of that message, and in a
\* cycle that ends without exception the message is marked and every later
\* message of the cycle is processed.
C12_NotifierBestEffort ==
  \A i \in 1..Len(ops) :
    ops[i].op = "notify_failed" =>
      /\ IF i = Len(ops)
           THEN pc = "Mark" /\ exc = "none" /\ CurUid = ops[i].uid
           ELSE ops[i + 1].op \in MarkOps
      /\ (pc = "Idle" /\ ~HasOp("unexpected_error"))
           => /\ ops[i + 1] = Ev(IF DELETE_AFTER_PRINT THEN "delete"
                                                      ELSE "flag_seen",
                                 ops[i].uid, 0)
              /\ \A k \in 1..Len(fetched) :
                   \E j \in 1..Len(ops) :
                     /\ ops[j].uid = fetched[k].uid
                     /\ ops[j].op \in {"processing", "denied"}

\* the confirmation for the first of two messages could not be sent, and a
\* part of the second message was printed afterwards
C12_Witness ==
  /\ pc = "Idle"
  /\ ~HasOp("unexpected_error")
  /\ Len(fetched) = 2
  /\ \E i, j \in 1..Len(ops) :
       /\ i < j
       /\ ops[i].op = "notify_failed" /\ ops[i].uid = fetched[1].uid
       /\ ops[j].op = "sent_to_printer" /\ ops[j].uid = fetched[2].uid


\* ------------------------------------------------------------------ C13
\* C13: the dispatcher never throws. Whatever the print invocation does,
\* print_content returns a boolean and no exception leaves it; the result is
\* true only after the print command exited with status zero, and an
\* invocation that cannot be started yields false like a non-zero exit.
C13_DispatcherNeverThrows ==
  /\ exc # "oserror"
  /\ (pc = "Remove" /\ success)
       => ops[Len(ops)] = Ev("sent_to_printer", CurUid, partIdx)
  /\ \A i \in 1..Len(ops) :
       ops[i].op = "lp_not_started" =>
         IF i = Len(ops) THEN pc = "Remove" /\ ~success
                         ELSE ops[i + 1].op \in {"remove", "remove_failed"}


\* ------------------------------------------------------------------ C14
NotifyOps == {"notify", "notify_failed"}

\* positions of the log where the notifier was called for message uid
NotifyPos(uid) ==
  {i \in 1..Len(ops) : ops[i].op \in NotifyOps /\ ops[i].uid = uid}

\* confirmation mails composed for message uid
MailsFor(uid) == {i \in 1..Len(outbox) : outbox[i].uid = uid}

\* process_email has returned for the k-th fetched message: the loop is past
\* it, or at its marking or later without an exception out of process_email
Returned(k) ==
  \/ cur > k
  \/ /\ cur = k
     /\ pc \notin {"Msg", "Part", "PrintFile", "Remove"}
     /\ ~HasOp("lp_not_started")

\* C14: one notification per authorized message. When process_email has
\* returned for an authorized message the notifier was called exactly once
\* for it, after all its temp-file and printer operations, with the message's
\* lower-cased sender as recipient; with no printed part the summary body is
\* the single nothing-printed line. For a denied message the notifier is
\* never called, and it is never called twice for any message.
C14_NotifiedOnce ==
  \A k \in 1..Len(fetched) :
    LET uid == fetched[k].uid
        m   == fetched[k].msg
    IN  /\ Cardinality(NotifyPos(uid)) <= 1
        /\ Cardinality(MailsFor(uid)) = Cardinality(NotifyPos(uid))
        /\ ~SenderListed(m) => NotifyPos(uid) = {}
        /\ (SenderListed(m) /\ Returned(k))
             => /\ Cardinality(NotifyPos(uid)) = 1
                /\ \A j \in NotifyPos(uid) :
                     \A i \in 1..Len(ops) :
                       (ops[i].uid = uid /\ ops[i].op \in DispatchOps
                          \cup {"sent_to_printer", "printing_failed"})
                         => i < j
                /\ \A o \in MailsFor(uid) :
                     /\ outbox[o].to = Lower(m.from)
                     /\ (~DETAILED_CONFIRMATION /\ outbox[o].labels = <<>>)
                          => outbox[o].body = << <<"confirmation_no_files">> >>

\* a cycle with a denied message and an authorized one that had nothing to
\* print: one confirmation went out, with the nothing-printed text
C14_Witness ==
  /\ pc = "Idle"
  /\ ~HasOp("unexpected_error")
  /\ HasOp("denied")
  /\ Len(outbox) = 1
  /\ outbox[1].labels = <<>>
  /\ outbox[1].body = << <<"confirmation_no_files">> >>
  /\ \E i \in 1..Len(ops) :
       ops[i] = Ev("notify", outbox[1].uid, 0)


\* ------------------------------------------------------------------ C15
\* part numbers of message uid reported as sent to the printer, in log order
RECURSIVE SucceededParts(_, _)
SucceededParts(log, uid) ==
  IF log = <<>> THEN <<>>
  ELSE (IF Head(log).op = "sent_to_printer" /\ Head(log).uid = uid
          THEN <<Head(log).arg>> ELSE <<>>)
       \o SucceededParts(Tail(log), uid)

\* every confirmation carries, for the printed parts of its message, the
\* labels that L gives them
LabelsAre(L(_)) ==
  \A o \in 1..Len(outbox) :
    LET sp == SucceededParts(ops, outbox[o].uid)
    IN  /\ Len(outbox[o].labels) = Len(sp)
        /\ \A i \in 1..Len(sp) :
             outbox[o].labels[i] = L(FetchedMsg(outbox[o].uid).parts[sp[i]])

\* the message at position k of the cycle has been through authorization
Authorized(k) == cur > k \/ (cur = k /\ pc # "Msg")

\* a listed sender is accepted whatever the case of its letters
SenderCaseInsensitive ==
  \A k \in 1..Len(fetched) :
    (Authorized(k) /\ SenderListed(fetched[k].msg))
      => \E i \in 1..Len(ops) : ops[i] = Ev("processing", fetched[k].uid, 0)

QuotedLabel(part) ==
  IF part.filename # <<>> THEN <<"attachment '">> \o part.filename \o <<"'">>
  ELSE <<"EmailBody-">> \o <<part.maintype, "/", part.subtype>>

FileNameLabel(part) ==
  IF part.filename # <<>> THEN part.filename
  ELSE <<"EmailBody-">> \o <<part.maintype, "/", part.subtype>>

\* C15 as stated: the label of a printed attachment with file name F is the
\* string attachment 'F', the label of a printed body of type T is
\* EmailBody-T, and a sender is matched without regard to case.
C15_QuotedLabels == LabelsAre(QuotedLabel) /\ SenderCaseInsensitive

\* C15 amended: the label of a printed attachment is its decoded file name F
\* itself (attachment 'F' is only the description used in the log), the
\* label of a printed body of type T is EmailBody-T, and a sender is matched
\* without regard to case.
C15_FileNameLabels == LabelsAre(FileNameLabel) /\ SenderCaseInsensitive

\* BOSS@Corp.com had file.PDF printed and another sender a plain-text body
C15_Witness ==
  \E o, b \in 1..Len(outbox) :
    /\ FetchedMsg(outbox[o].uid).from = Boss
    /\ outbox[o].to = <<"boss", "@", "corp.com">>
    /\ outbox[o].labels = << <<"file", ".", "PDF">> >>
    /\ outbox[b].labels # <<>>
    /\ outbox[b].labels[1] = <<"EmailBody-", "text", "/", "plain">>


\* ------------------------------------------------------------------ C16
\* entries that say a part was not printed
NotPrintedOps ==
  {"skip_empty", "skip_ext", "skip_body", "skip_html_blank", "ignore",
   "size_reject", "printing_failed", "lp_not_started"}

SummaryLine(label) == <<"confirmation_printed">> \o label \o <<"PRINTER_NAME">>

\* C16: the labels handed to the notifier for a message are those of exactly
\* the parts whose print succeeded, in part-walk order: no part that was
\* rejected or whose print failed is among them and no printed part is
\* missing. In summary mode the body has one line per label, or the single
\* nothing-printed line when there is none.
C16_LabelsAreSucceededParts ==
  \A o \in 1..Len(outbox) :
    LET uid == outbox[o].uid
        m   == FetchedMsg(uid)
        sp  == SucceededParts(ops, uid)
        lab == outbox[o].labels
    IN  /\ lab = [i \in 1..Len(sp) |-> FileNameLabel(m.parts[sp[i]])]
        /\ \A i, j \in 1..Len(sp) : i < j => sp[i] < sp[j]
        /\ \A e \in 1..Len(ops) :
             (ops[e].uid = uid /\ ops[e].op \in NotPrintedOps)
               => \A i \in 1..Len(sp) : sp[i] # ops[e].arg
        /\ ~DETAILED_CONFIRMATION =>
             outbox[o].body =
               IF lab = <<>> THEN << <<"confirmation_no_files">> >>
               ELSE [i \in 1..Len(lab) |-> SummaryLine(lab[i])]

\* the print of the plain-text body failed and the HTML body was printed:
\* the confirmation names the HTML body alone
C16_Witness ==
  \E o \in 1..Len(outbox) :
    /\ \E e \in 1..Len(ops) :
         ops[e] = Ev("printing_failed", outbox[o].uid, 1)
    /\ outbox[o].labels = << <<"EmailBody-", "text", "/", "html">> >>
    /\ outbox[o].body =
         << <<"confirmation_printed", "EmailBody-", "text", "/", "html",
              "PRINTER_NAME">> >>


\* ------------------------------------------------------------------ C17
HasAttachment(m) ==
  \E j \in 1..Len(m.parts) :
    m.parts[j].maintype # "multipart" /\ m.parts[j].filename # <<>>

\* all attachments of m, and there is one, fail the extension filter
AllAttachmentsRejected(m) == HasAttachment(m) /\ ~HasPassingAttachment(m)

\* a body with something to print, within the size limit
PrintableBody(part) ==
  /\ IsBodyPart(part)
  /\ Strip(part.payload) # <<>>
  /\ ~(part.subtype = "html" /\ Strip(StripTags(part.payload)) = <<>>)
  /\ Len(part.payload) <= MAX_FILE_SIZE_BYTES

\* entries about one part of a message
PartOps == DispatchOps \cup NotPrintedOps \cup {"sent_to_printer"}

\* C17 as stated: a message all of whose attachments are rejected by the
\* extension allow-list has its bodies suppressed; no body part of it is
\* written to a temp file or sent to the printer.
C17_BodySuppressedWhenAllRejected ==
  \A i \in 1..Len(ops) :
    (ops[i].op \in DispatchOps /\ IsBodyPart(EvPart(ops[i])))
      => ~AllAttachmentsRejected(FetchedMsg(ops[i].uid))

\* C17 amended: bodies are suppressed only by an attachment that passes the
\* extension filter. In a message all of whose attachments are rejected by
\* the extension allow-list no body is skipped on account of attachments, and
\* every body with something to print and within the size limit has been
\* written to a temp file for printing by the time the walk is past it.
C17_BodyPrintedWhenAllRejected ==
  \A k \in 1..Len(fetched) :
    LET uid == fetched[k].uid
        m   == fetched[k].msg
    IN  AllAttachmentsRejected(m) =>
          /\ \A e \in 1..Len(ops) :
               ~(ops[e].op = "skip_body" /\ ops[e].uid = uid)
          /\ \A p \in 1..Len(m.parts) :
               PrintableBody(m.parts[p]) =>
                 \A e \in 1..Len(ops) :
                   (/\ ops[e].uid = uid
                    /\ \/ ops[e].op \in PartOps /\ ops[e].arg > p
                       \/ ops[e].op \in NotifyOps)
                     => \E t \in 1..(e - 1) : ops[t] = Ev("tmpfile", uid, p)

\* run.exe was rejected by the extension filter and both bodies of the same
\* message were printed
C17_Witness ==
  \E o \in 1..Len(outbox) :
    /\ AllAttachmentsRejected(FetchedMsg(outbox[o].uid))
    /\ \E e \in 1..Len(ops) : ops[e] = Ev("skip_ext", outbox[o].uid, 3)
    /\ outbox[o].labels = << <<"EmailBody-", "text", "/", "plain">>,
                             <<"EmailBody-", "text", "/", "html">> >>


\* ------------------------------------------------------------------ C18
\* entries that say a part was rejected or that its print failed with a
\* non-zero exit
RejectOps ==
  {"skip_empty", "skip_ext", "skip_html_blank", "size_reject",
   "printing_failed"}

\* a part that the walk is to hand to the printer
Eligible(m, part) ==
  /\ Strip(part.payload) # <<>>
  /\ Len(part.payload) <= MAX_FILE_SIZE_BYTES
  /\ \/ PassingAttachment(part)
     \/ PrintableBody(part) /\ ~HasPassingAttachment(m)

\* C18: rejections are per part. After a part of an authorized message was
\* rejected (blank payload, extension, blank HTML, size) or its print failed
\* with a non-zero exit, every later part of the message is still looked at
\* and, when eligible, written out for printing before the notifier is
\* called, and the notifier is called once process_email has returned.
C18_RejectionIsPerPart ==
  \A k \in 1..Len(fetched) :
    LET uid == fetched[k].uid
        m   == fetched[k].msg
    IN  \A e \in 1..Len(ops) :
          (ops[e].uid = uid /\ ops[e].op \in RejectOps) =>
            /\ Returned(k) => NotifyPos(uid) # {}
            /\ \A n \in NotifyPos(uid) :
                 \A q \in (ops[e].arg + 1)..Len(m.parts) :
                   /\ \E c \in (e + 1)..(n - 1) :
                        /\ ops[c].uid = uid /\ ops[c].arg = q
                        /\ ops[c].op \in PartOps
                   /\ Eligible(m, m.parts[q]) =>
                        \E t \in (e + 1)..(n - 1) :
                          ops[t] = Ev("tmpfile", uid, q)

\* in one cycle an oversized attachment was rejected and a later attachment
\* printed, and a body whose print failed was followed by a printed body;
\* both senders were notified
C18_Witness ==
  /\ Len(outbox) = 2
  /\ \E e, t \in 1..Len(ops) :
       /\ e < t
       /\ ops[e].op = "size_reject"
       /\ ops[t] = Ev("sent_to_printer", ops[e].uid, ops[e].arg + 1)
       /\ NotifyPos(ops[e].uid) # {}
  /\ \E e, t \in 1..Len(ops) :
       /\ e < t
       /\ ops[e].op = "printing_failed"
       /\ ops[t] = Ev("sent_to_printer", ops[e].uid, ops[e].arg + 1)
       /\ NotifyPos(ops[e].uid) # {}


\* ------------------------------------------------------------------ C19
\* a step in which the print command is run for the current part
PrintStep == pc = "PrintFile" /\ pc' = "Remove"

\* no message of the mailbox loses a flag in the step
FlagsKept ==
  \A i \in 1..Len(mailbox) :
    \A j \in 1..Len(mailbox') :
      mailbox[i].uid = mailbox'[j].uid
        => mailbox[i].flags \subseteq mailbox'[j].flags

C20_SessionOrFailure ==
  /\ pc = "Enter" => client = "open"
  /\ exc = "imap_connect"
       => /\ client = "None"
          /\ CountOp(conn_log, "connect_fail") + CountOp(conn_log, "login_fail")
               = MAX_IMAP_RETRIES


\* ------------------------------------------------------------------ C21
\* connections to the mail store that are open: the session in use and the
\* ones left behind by failed logins
OpenConnections == unclosed + (IF client = "open" THEN 1 ELSE 0)

\* C21: at most one mail-store connection is open at any time. A connection
\* opened by an attempt whose login failed is closed before the next attempt
\* and before the failure is propagated, and no connection is open at Idle.
C21_OneConnection ==
  /\ OpenConnections <= 1
  /\ pc \in {"Attempt", "Except"} => unclosed = 0
  /\ pc = "Idle" => OpenConnections = 0


\* ------------------------------------------------------------------ C22
\* m has attachments that pass the extension filter, all of them blank
OnlyBlankQualifying(m) ==
  /\ HasPassingAttachment(m)
  /\ \A j \in 1..Len(m.parts) :
       PassingAttachment(m.parts[j]) => Strip(m.parts[j].payload) = <<>>

\* C22: body suppression depends on the extension test alone. A non-blank
\* body of an authorized message is skipped on account of attachments if and
\* only if some part that is not a container has a file name whose extension
\* passes the filter, whatever the payload of that attachment and whatever
\* became of its print. So a message whose qualifying attachments are all
\* blank has nothing written out or printed, and its confirmation carries no
\* label and, in summary mode, the nothing-printed line.
C22_SuppressionByExtensionOnly ==
  /\ \A e \in 1..Len(ops) :
       (/\ ops[e].op \in PartOps \ {"skip_empty"}
        /\ IsBodyPart(EvPart(ops[e])))
         => (ops[e].op = "skip_body"
               <=> HasPassingAttachment(FetchedMsg(ops[e].uid)))
  /\ \A o \in 1..Len(outbox) :
       OnlyBlankQualifying(FetchedMsg(outbox[o].uid))
         => /\ outbox[o].labels = <<>>
            /\ \A e \in 1..Len(ops) :
                 ~(ops[e].uid = outbox[o].uid /\ ops[e].op \in DispatchOps)
            /\ ~DETAILED_CONFIRMATION
                 => outbox[o].body = << <<"confirmation_no_files">> >>

\* the only attachment of a message passed the extension filter and was
\* blank: its plain-text body was skipped and the sender was told that
\* nothing was printed
C22_Witness ==
  \E o \in 1..Len(outbox) :
    LET uid == outbox[o].uid
    IN  /\ OnlyBlankQualifying(FetchedMsg(uid))
        /\ \E b, a \in 1..Len(ops) :
             /\ ops[b] = Ev("skip_body", uid, 1)
             /\ Strip(EvPart(ops[b]).payload) # <<>>
             /\ ops[a] = Ev("skip_empty", uid, 2)
        /\ ops[Len(ops)] = Ev("notify", uid, 0)
        /\ outbox[o].body = << <<"confirmation_no_files">> >>


\* ------------------------------------------------------------------ C23
\* the detailed confirmation of every message holds the entries logged from
\* the start of its processing to the call of the notifier, all of them
\* about that message
DetailedLogScoped ==
  \A o \in 1..Len(outbox) :
    LET uid == outbox[o].uid
        st  == CHOOSE i \in 1..Len(ops) : ops[i] = Ev("processing", uid, 0)
    IN  \A n \in NotifyPos(uid) :
          /\ \A i \in st..(n - 1) : ops[i].uid = uid
          /\ DETAILED_CONFIRMATION =>
               outbox[o].body =
                 << <<"confirmation_processed">> >>
                 \o [i \in 1..(n - st) |-> <<ops[st + i - 1].op>>]
                 \o (IF outbox[o].labels = <<>>
                       THEN << <<"no_printable_content">> >> ELSE <<>>)

\* C23: log capture is scoped to one message. The capture handler attached
\* for an authorized message is detached before the next message is
\* processed and before Idle on every path, one where a dispatch raises
\* included: never more than one is attached, none at Idle, and the detailed
\* log sent for a message holds only entries logged while it was processed.
C23_CaptureScoped ==
  /\ handlers <= 1
  /\ pc \in {"Msg", "Idle", "Start", "Try"} => handlers = 0
  /\ DetailedLogScoped

====
